---- MODULE Spec2Model ----
(***************************************************************************)
(* Lifecycle and locking model of rust/src/api/relay.rs: the six global    *)
(* mutex-guarded slots, and start_relay / stop_relay / get_relay_url /     *)
(* is_relay_running / get_relay_stats / the log-file operations as         *)
(* sequences of steps taken by concurrently calling threads.  A step is    *)
(* one critical section or one external call (filesystem, database,        *)
(* socket), so every interleaving the mutexes allow is a behaviour.  The    *)
(* log file is a text of lines of records, written by the worker thread of *)
(* the non-blocking file writer and rewritten by start_relay,              *)
(* read_log_file and clear_log_file.                                       *)
(* No code panics while it holds one of the mutexes, so no lock is ever    *)
(* poisoned and the lock-failure returns are not reachable.                *)
(***************************************************************************)
EXTENDS Integers, Sequences, FiniteSets, TLC

\* ---------------------------------------------------------------- bounds
MaxStarts == 3           \* start_relay calls begun in one behaviour
MaxCalls == 3            \* calls begun in one behaviour of concurrent callers

\* ------------------------------------------------------ program constants
DefaultPort == 8081      \* RelayConfig::default().port
OtherPort == DefaultPort + 1   \* a second port, for a restart on a different port
MaxLogLines == 200       \* the lines limit_log_file_lines and read_log_file keep

\* The two synchronous callers: one drives the lifecycle, one polls.
Threads == {1, 2}

\* Option<T>: None is the empty sequence, Some(x) the one-element sequence.
None == << >>
Some(x) == << x >>
Unwrap(o) == o[1]

\* Result<T, String>
Ok(v) == [ok |-> TRUE, val |-> v]
Err(msg) == [ok |-> FALSE, val |-> msg]
NoRet == [ok |-> FALSE, val |-> "(no call has returned)"]
Unit == "()"

ErrNotRunning == "Relay is not running"
ErrInvalidDbPath == "Invalid database path"
ErrOpenLog == "Failed to open log file"
ErrCreateRuntime == "Failed to create tokio runtime"
ErrInvalidIp == "Invalid IP address"
ErrCreateDir == "Failed to create database directory"
ErrOpenNdb == "Failed to open NDB database"
ErrStartRelay == "Failed to start relay"
ErrOpenDb == "Failed to open database"
ErrRuntimeNotInit == "Runtime not initialized"
ErrLogPathNotSet == "Log file path not set"
ErrReadLog == "Failed to read log file"
ErrClearLog == "Failed to clear log file"
ErrTruncateLog == "Failed to truncate log file"
ErrCount == "Failed to count events"

\* ---------------------------------------------------------------- inputs
\* Host strings a caller may pass.  The last one is not an IP literal.
Hosts == {"0.0.0.0", "127.0.0.1", "::", "0:0:0:0:0:0:0:0", "::1",
          "localhost"}
Ports == {DefaultPort, OtherPort}
\* Paths are sequences of components below the root; << >> is "/".
DbPaths == {<<"a", "relay.db">>, <<"b", "relay.db">>, << >>}

\* The smaller input sets of the concurrent specification.
ConcHosts == {"0.0.0.0", "localhost"}
ConcPorts == {DefaultPort}
ConcDbPaths == {<<"a", "relay.db">>}

\* The max_lines arguments of read_log_file: absent, zero, fewer than the
\* file may hold, the limit, more than the limit.
MaxLinesArgs == {None, Some(0), Some(10), Some(MaxLogLines),
                 Some(MaxLogLines + 1)}
ConcMaxLines == {None}

\* The inputs of the specification of the log file.
LogHosts == {"127.0.0.1"}
LogDbPaths == {<<"a", "relay.db">>}

\* host.parse::<IpAddr>(): the address, or None for a string that is no IP
\* literal.  An address is its family and its canonical text (to_string()).
ParseIp(host) ==
    CASE host = "0.0.0.0" -> Some([v |-> 4, text |-> "0.0.0.0"])
      [] host = "127.0.0.1" -> Some([v |-> 4, text |-> "127.0.0.1"])
      [] host = "::" -> Some([v |-> 6, text |-> "::"])
      [] host = "0:0:0:0:0:0:0:0" -> Some([v |-> 6, text |-> "::"])
      [] host = "::1" -> Some([v |-> 6, text |-> "::1"])
      [] OTHER -> None

\* PathBuf::parent(): None for the root.
Parent(path) == IF Len(path) = 0 THEN None
                ELSE Some(SubSeq(path, 1, Len(path) - 1))

\* log_dir.join("relay.log")
LogFilePathOf(dir) == Append(dir, "relay.log")

\* relay.url().to_string(): ws://<socket address>, an IPv6 address bracketed.
RelayUrl(addr, port) ==
    << "ws", IF addr.v = 6 THEN "[" \o addr.text \o "]" ELSE addr.text, port >>

\* The client URL start_relay_async derives from the bind address: the
\* loopback address stands in for an address whose text is "0.0.0.0".
ClientUrl(addr, port) ==
    IF addr.text = "0.0.0.0" THEN << "ws", "127.0.0.1", port >>
    ELSE RelayUrl(addr, port)

\* A URL whose host is an "any interface" address.
IsWildcardUrl(url) == url[2] \in {"0.0.0.0", "[::]"}

\* The log files a start can name.
LogPaths == {LogFilePathOf(Unwrap(Parent(d))) : d \in {e \in DbPaths : Parent(e) # None}}

\* db.count(Filter::new()): the events the database at a path holds.  No
\* client publishes an event in the behaviours modelled.
EventsIn(path) == IF path = <<"b", "relay.db">> THEN 3 ELSE 0

\* ----------------------------------------------------------------- text
\* A text is its lines and whether the last of them ends in "\n".  A line is
\* the sequence of records written on it; a record is a pair of its message
\* and a number, and is not empty.
Text(lines, nl) == [lines |-> lines, nl |-> nl]
EmptyText == Text(<< >>, FALSE)

\* str::lines()
Lines(text) == text.lines

\* [&str]::join("\n"): no "\n" follows the last line; a last line that is
\* empty leaves the "\n" that preceded it at the end of the text.
Join(ls) ==
    IF ls = << >> THEN EmptyText
    ELSE IF ls[Len(ls)] # << >> THEN Text(ls, FALSE)
    ELSE IF Len(ls) = 1 THEN EmptyText
    ELSE Text(SubSeq(ls, 1, Len(ls) - 1), TRUE)

\* lines[lines.len() - k ..]
LastLines(ls, k) == SubSeq(ls, Len(ls) - k + 1, Len(ls))

\* iter.skip(k)
Skip(ls, k) == SubSeq(ls, k + 1, Len(ls))

\* The bytes of one formatted record and its "\n" written at the end of a
\* text: they continue the last line when that line is not terminated.
AppendRecord(text, rec) ==
    IF text.lines = << >> \/ text.nl
    THEN Text(Append(text.lines, << rec >>), TRUE)
    ELSE Text([text.lines EXCEPT ![Len(text.lines)] = Append(@, rec)], TRUE)

\* Records written one after the other: each after the first begins a line.
AppendRecords(text, recs) ==
    IF recs = << >> THEN text
    ELSE Text(AppendRecord(text, recs[1]).lines
                  \o [i \in 1..(Len(recs) - 1) |-> << recs[i + 1] >>], TRUE)

\* A one-line text without "\n": the strings read_log_file returns for a
\* missing and for an empty file.
Message(msg) == Text(<< << << msg, 0 >> >> >>, FALSE)
NoLogFileYet == Message("Log file does not exist yet.")
LogFileIsEmpty == Message("Log file is empty.")

\* A log file of n complete lines, left by an earlier run of the program.
OldFile(n) == Some(Text([i \in 1..n |-> << << "old", i >> >>], TRUE))

\* The log file a process may find when it starts: none, or one below, at,
\* just above and far above the limit.
InitialFiles == {None, OldFile(1), OldFile(MaxLogLines),
                 OldFile(MaxLogLines + 1), OldFile(2 * MaxLogLines + 100)}

\* limit_log_file_lines(path, max_lines): the file afterwards.
LimitLogFileLines(file, max_lines) ==
    IF file = None THEN None
    ELSE LET lines == Lines(Unwrap(file)) IN
         IF Len(lines) > max_lines
         THEN Some(Join(LastLines(lines, max_lines)))
         ELSE file

\* max_lines.map(|n| n as usize).unwrap_or(200).min(200)
MaxOf(max_lines) ==
    LET n == IF max_lines = None THEN MaxLogLines ELSE Unwrap(max_lines) IN
    IF n < MaxLogLines THEN n ELSE MaxLogLines

\* Faulty variant: the file is cut to its first 200 lines.
ReadLogFileKeepsHead(file, max_lines) ==
    IF file = None THEN [file |-> file, text |-> NoLogFileYet]
    ELSE IF Unwrap(file) = EmptyText THEN [file |-> file, text |-> LogFileIsEmpty]
    ELSE LET content == Unwrap(file)
             lines == Lines(content)
             max == MaxOf(max_lines) IN
         IF Len(lines) > MaxLogLines
         THEN LET truncated_content == Join(SubSeq(lines, 1, MaxLogLines)) IN
              [file |-> Some(truncated_content),
               text |-> IF max < MaxLogLines
                        THEN Join(Skip(Lines(truncated_content), MaxLogLines - max))
                        ELSE truncated_content]
         ELSE [file |-> file,
               text |-> IF Len(lines) > max THEN Join(LastLines(lines, max))
                        ELSE content]

\* Faulty variant: the lines to skip are counted from the wrong end.
ReadLogFileSkipsMax(file, max_lines) ==
    IF file = None THEN [file |-> file, text |-> NoLogFileYet]
    ELSE IF Unwrap(file) = EmptyText THEN [file |-> file, text |-> LogFileIsEmpty]
    ELSE LET content == Unwrap(file)
             lines == Lines(content)
             max == MaxOf(max_lines) IN
         IF Len(lines) > MaxLogLines
         THEN LET truncated_content == Join(LastLines(lines, MaxLogLines)) IN
              [file |-> Some(truncated_content),
               text |-> IF max < MaxLogLines
                        THEN Join(Skip(Lines(truncated_content), max))
                        ELSE truncated_content]
         ELSE [file |-> file,
               text |-> IF Len(lines) > max THEN Join(LastLines(lines, max))
                        ELSE content]

\* read_log_file once the path is known and the file could be read and
\* written: the file afterwards and the string returned.
ReadLogFile(file, max_lines) ==
    IF file = None THEN [file |-> file, text |-> NoLogFileYet]
    ELSE IF Unwrap(file) = EmptyText THEN [file |-> file, text |-> LogFileIsEmpty]
    ELSE LET content == Unwrap(file)
             lines == Lines(content)
             max == MaxOf(max_lines) IN
         IF Len(lines) > MaxLogLines
         THEN LET truncated_content == Join(LastLines(lines, MaxLogLines)) IN
              [file |-> Some(truncated_content),
               text |-> IF max < MaxLogLines
                        THEN Join(Skip(Lines(truncated_content), MaxLogLines - max))
                        ELSE truncated_content]
         ELSE [file |-> file,
               text |-> IF Len(lines) > max THEN Join(LastLines(lines, max))
                        ELSE content]

LockNames == {"RELAY_INSTANCE", "RELAY_CLIENT_URL", "RELAY_DATABASE",
              "RUNTIME", "LOG_FILE_PATH", "LOG_GUARD"}

VARIABLES
    RELAY_INSTANCE,     \* Option<relay id>
    RELAY_CLIENT_URL,   \* Option<url>
    RELAY_DATABASE,     \* Option<database handle>
    RUNTIME,            \* Option<runtime id>
    LOG_FILE_PATH,      \* Option<path>
    LOG_GUARD,          \* Option<guard id>
    lock,               \* mutex name -> holding thread, 0 when free
    subscriber,         \* the global tracing subscriber: Option<file writer>
    fs,                 \* log path -> Option<text>: the log files
    pending,            \* records handed to the subscriber's writer, not yet written
    live,               \* relays whose run() succeeded and that still serve
    shut,               \* relays this code has called shutdown() on
    constructed,        \* runtime ids Runtime::new() returned
    starts,             \* start_relay calls begun
    calls,              \* calls begun, counted up to MaxCalls
    th,                 \* per thread: position, arguments, locals
    last,               \* the call that returned last, until a call begins
    pre                 \* the globals and files when the call in progress began alone

vars == << RELAY_INSTANCE, RELAY_CLIENT_URL, RELAY_DATABASE, RUNTIME,
           LOG_FILE_PATH, LOG_GUARD, lock, subscriber, fs, pending, live,
           shut, constructed, starts, calls, th, last, pre >>

\* The log files and the records on their way to them.
sink == << fs, pending >>

globals == << RELAY_INSTANCE, RELAY_CLIENT_URL, RELAY_DATABASE, RUNTIME,
              LOG_FILE_PATH, LOG_GUARD >>

Globals == [instance |-> RELAY_INSTANCE, url |-> RELAY_CLIENT_URL,
            database |-> RELAY_DATABASE, runtime |-> RUNTIME,
            log_path |-> LOG_FILE_PATH, log_guard |-> LOG_GUARD]

NoSnap == [by |-> 0]
\* wrote: the worker has written to a log file since the call returned.
NoLast == [op |-> "none", ret |-> NoRet, wrote |-> FALSE]
NoPrev == [op |-> "none"]

Idle == [pc |-> "idle", op |-> "none", host |-> "", port |-> 0,
         db_path |-> << >>, max_lines |-> None, n |-> 0, rt |-> None,
         db |-> None, relay |-> None, url |-> None]

\* The state of a process that has made no call, with the given log files.
InitWith(files) ==
    /\ RELAY_INSTANCE = None
    /\ RELAY_CLIENT_URL = None
    /\ RELAY_DATABASE = None
    /\ RUNTIME = None
    /\ LOG_FILE_PATH = None
    /\ LOG_GUARD = None
    /\ lock = [m \in LockNames |-> 0]
    /\ subscriber = None
    /\ live = {}
    /\ shut = {}
    /\ constructed = {}
    /\ starts = 0
    /\ calls = 0
    /\ th = [t \in Threads |-> Idle]
    /\ last = NoLast
    /\ pre = NoSnap
    /\ fs = files
    /\ pending = << >>

\* A first run: no log file exists.
Init == InitWith([p \in LogPaths |-> None])

\* A later run: the log file of the first directory is as an earlier run left it.
LogInit ==
    \E f \in InitialFiles :
        InitWith([p \in LogPaths |-> IF p = LogFilePathOf(<<"a">>) THEN f ELSE None])

AllIdle == \A t \in Threads : th[t].pc = "idle"

\* Mutex::lock() returns once no thread holds the mutex.
CanLock(m, t) == lock[m] = 0

\* The thread's position and locals become r.
Set(t, r) ==
    /\ th' = [th EXCEPT ![t] = r]
    /\ UNCHANGED last

Goto(t, pc) == Set(t, [th[t] EXCEPT !.pc = pc])

\* The call returns r: the locals are dropped, the result is recorded.
Return(t, r) ==
    /\ th' = [th EXCEPT ![t] = Idle]
    /\ last' = [op |-> th[t].op, ret |-> r, wrote |-> FALSE]

\* The call a read_log_file follows, when that was a log file operation that
\* ran alone: its name, arguments, result, and whether the worker has written
\* to the file since it returned.
Prev(op) ==
    IF op = "read_log_file" /\ pre.by # 0
       /\ last.op \in {"read_log_file", "clear_log_file"}
    THEN [op |-> last.op, arg |-> pre.arg, ret |-> last.ret, wrote |-> last.wrote]
    ELSE NoPrev

\* A call begins on the first thread that is not in a call (the threads are
\* interchangeable); the snapshot is kept only while the call runs alone.
\* wrote: the worker has written to a log file while the call was in progress.
Begin(t, op, rec) ==
    /\ th[t].pc = "idle"
    /\ \A u \in Threads : u < t => th[u].pc # "idle"
    /\ th' = [th EXCEPT ![t] = rec]
    /\ last' = NoLast
    /\ pre' = IF AllIdle
              THEN [by |-> t, op |-> op, g |-> Globals,
                    arg |-> [db_path |-> rec.db_path, max_lines |-> rec.max_lines],
                    fs |-> fs, prev |-> Prev(op), wrote |-> FALSE]
              ELSE NoSnap
    /\ calls' = IF calls < MaxCalls THEN calls + 1 ELSE calls

Release(m) == lock' = [lock EXCEPT ![m] = 0]
Acquire(m, t) == lock' = [lock EXCEPT ![m] = t]

\* ------------------------------------------------------------ start_relay
StartRelayCall(t, host, port, db_path) ==
    /\ starts < MaxStarts
    /\ Begin(t, "start", [Idle EXCEPT !.pc = "start_log_path", !.op = "start",
                                      !.host = host, !.port = port,
                                      !.db_path = db_path, !.n = starts + 1])
    /\ starts' = starts + 1
    /\ UNCHANGED << globals, lock, subscriber, live, shut, constructed, sink >>

\* The log path is derived from the database path and stored.
StartLogPath(t) ==
    /\ th[t].pc = "start_log_path"
    /\ LET dir == Parent(th[t].db_path) IN
       IF dir = None
       THEN /\ Return(t, Err(ErrInvalidDbPath))
            /\ UNCHANGED LOG_FILE_PATH
       ELSE /\ CanLock("LOG_FILE_PATH", t)
            /\ LOG_FILE_PATH' = Some(LogFilePathOf(Unwrap(dir)))
            /\ Goto(t, "start_log_file")
    /\ UNCHANGED << RELAY_INSTANCE, RELAY_CLIENT_URL, RELAY_DATABASE, RUNTIME,
                    LOG_GUARD, lock, subscriber, live, shut, constructed, sink,
                    starts, calls, pre >>

\* The log file is trimmed to its last 200 lines, which may fail and is then
\* left as it is (the result of limit_log_file_lines is discarded); the
\* rotated files are removed; the file is opened for appending and created
\* when missing, and the open may fail.
StartLogFile(t) ==
    /\ th[t].pc = "start_log_file"
    /\ LET path == LogFilePathOf(Unwrap(Parent(th[t].db_path))) IN
       \E limited \in {LimitLogFileLines(fs[path], MaxLogLines), fs[path]} :
           \/ /\ Return(t, Err(ErrOpenLog))
              /\ fs' = [fs EXCEPT ![path] = limited]
           \/ /\ Goto(t, "start_log_guard")
              /\ fs' = [fs EXCEPT ![path] = IF limited = None THEN Some(EmptyText)
                                            ELSE limited]
    /\ UNCHANGED << globals, lock, subscriber, pending, live, shut,
                    constructed, starts, calls, pre >>

\* The content of a file, a missing one having none.
Content(file) == IF file = None THEN EmptyText ELSE Unwrap(file)

\* The worker thread of the subscriber's writer runs until the guard made
\* with that writer is dropped.
WorkerAlive == subscriber # None /\ LOG_GUARD = Some(Unwrap(subscriber).w)

\* tracing::info!: the subscriber formats the records and hands them to the
\* worker of its writer; they are lost when that worker has stopped.
Logged(recs) == IF WorkerAlive THEN pending \o recs ELSE pending

\* WorkerGuard::drop of the guard LOG_GUARD holds: the worker of that guard
\* writes what it was handed and stops.
FilesAfterDrop ==
    IF WorkerAlive
    THEN [fs EXCEPT ![Unwrap(subscriber).path] =
                        Some(AppendRecords(Content(@), pending))]
    ELSE fs

\* The writer's guard replaces the stored one, which is dropped; try_init
\* installs the subscriber, with this call's writer, only when the process
\* has none yet.
StartLogGuard(t) ==
    /\ th[t].pc = "start_log_guard"
    /\ CanLock("LOG_GUARD", t)
    /\ LOG_GUARD' = Some(th[t].n)
    /\ fs' = FilesAfterDrop
    /\ pending' = << >>
    /\ subscriber' =
          IF subscriber = None
          THEN Some([w |-> th[t].n,
                     path |-> LogFilePathOf(Unwrap(Parent(th[t].db_path)))])
          ELSE subscriber
    /\ Goto(t, "start_rt_lock")
    /\ UNCHANGED << RELAY_INSTANCE, RELAY_CLIENT_URL, RELAY_DATABASE, RUNTIME,
                    LOG_FILE_PATH, lock, live, shut, constructed, starts, calls, pre >>

\* Faulty variant: the is_none() test is made without waiting for the lock.
StartRuntimeLockUnguarded(t) ==
    /\ th[t].pc = "start_rt_lock"
    /\ Acquire("RUNTIME", t)
    /\ Goto(t, IF RUNTIME = None THEN "start_rt_new" ELSE "start_rt_clone")
    /\ UNCHANGED << globals, subscriber, live, shut, constructed, sink, starts,
                    calls, pre >>

\* RUNTIME.lock(), then the is_none() test under the lock.
StartRuntimeLock(t) ==
    /\ th[t].pc = "start_rt_lock"
    /\ CanLock("RUNTIME", t)
    /\ Acquire("RUNTIME", t)
    /\ Goto(t, IF RUNTIME = None THEN "start_rt_new" ELSE "start_rt_clone")
    /\ UNCHANGED << globals, subscriber, live, shut, constructed, sink, starts, calls, pre >>

\* Runtime::new() and the store, still under the lock; a failure returns.
StartRuntimeNew(t) ==
    /\ th[t].pc = "start_rt_new"
    /\ \/ /\ Return(t, Err(ErrCreateRuntime))
          /\ Release("RUNTIME")
          /\ UNCHANGED << RUNTIME, constructed >>
       \/ /\ constructed' = constructed \cup {th[t].n}
          /\ RUNTIME' = Some(th[t].n)
          /\ Goto(t, "start_rt_clone")
          /\ UNCHANGED lock
    /\ UNCHANGED << RELAY_INSTANCE, RELAY_CLIENT_URL, RELAY_DATABASE,
                    LOG_FILE_PATH, LOG_GUARD, subscriber, live, shut, sink,
                    starts, calls, pre >>

\* The handle is cloned and the lock released.
StartRuntimeClone(t) ==
    /\ th[t].pc = "start_rt_clone"
    /\ Set(t, [th[t] EXCEPT !.pc = "async_open_db", !.rt = RUNTIME])
    /\ Release("RUNTIME")
    /\ UNCHANGED << globals, subscriber, live, shut, constructed, sink, starts, calls, pre >>

\* ------------------------------------------------------ start_relay_async
\* host.parse(), create_dir_all, NdbDatabase::open: each may fail.
AsyncOpenDb(t) ==
    /\ th[t].pc = "async_open_db"
    /\ IF ParseIp(th[t].host) = None
       THEN Return(t, Err(ErrInvalidIp))
       ELSE \/ Return(t, Err(ErrCreateDir))
            \/ Return(t, Err(ErrOpenNdb))
            \/ Set(t, [th[t] EXCEPT !.pc = "async_store_db",
                                     !.db = Some([path |-> th[t].db_path,
                                                  n |-> th[t].n])])
    /\ UNCHANGED << globals, lock, subscriber, live, shut, constructed, sink,
                    starts, calls, pre >>

AsyncStoreDb(t) ==
    /\ th[t].pc = "async_store_db"
    /\ CanLock("RELAY_DATABASE", t)
    /\ RELAY_DATABASE' = th[t].db
    /\ Goto(t, "async_run")
    /\ UNCHANGED << RELAY_INSTANCE, RELAY_CLIENT_URL, RUNTIME, LOG_FILE_PATH,
                    LOG_GUARD, lock, subscriber, live, shut, constructed, sink,
                    starts, calls, pre >>

\* A port a running relay listens on cannot be bound again.
PortInUse(port) == \E r \in live : r.port = port

\* Faulty variant: the relay is put in the slot before run() has succeeded.
AsyncRunStoreBeforeRun(t) ==
    /\ th[t].pc = "async_run"
    /\ LET relay == [id |-> th[t].n, port |-> th[t].port]
           addr == Unwrap(ParseIp(th[t].host)) IN
       \/ /\ Return(t, Err(ErrStartRelay))
          /\ RELAY_INSTANCE' = Some(relay)
          /\ UNCHANGED live
       \/ /\ ~PortInUse(th[t].port)
          /\ live' = live \cup {relay}
          /\ RELAY_INSTANCE' = Some(relay)
          /\ Set(t, [th[t] EXCEPT !.pc = "async_store_instance",
                                   !.relay = Some(relay),
                                   !.url = Some(ClientUrl(addr, th[t].port))])
    /\ UNCHANGED << RELAY_CLIENT_URL, RELAY_DATABASE, RUNTIME, LOG_FILE_PATH,
                    LOG_GUARD, lock, subscriber, shut, constructed, sink, starts,
                    calls, pre >>

\* relay.run() binds and serves, or fails; then the client URL is computed
\* and the two start events are logged.
AsyncRun(t) ==
    /\ th[t].pc = "async_run"
    /\ \/ /\ Return(t, Err(ErrStartRelay))
          /\ UNCHANGED << live, pending >>
       \/ /\ ~PortInUse(th[t].port)
          /\ LET relay == [id |-> th[t].n, port |-> th[t].port]
                 addr == Unwrap(ParseIp(th[t].host)) IN
             /\ live' = live \cup {relay}
             /\ Set(t, [th[t] EXCEPT !.pc = "async_store_instance",
                                      !.relay = Some(relay),
                                      !.url = Some(ClientUrl(addr, th[t].port))])
          /\ pending' = Logged(<< << "Relay started on", th[t].n >>,
                                  << "Log file:", th[t].n >> >>)
    /\ UNCHANGED << globals, lock, subscriber, fs, shut, constructed, starts,
                    calls, pre >>

\* The running relays after the handle in slot o (if any) has been dropped
\* without a shutdown() call.
DroppedHandle(o) == IF o = None THEN {live} ELSE {live, live \ {Unwrap(o)}}

\* Faulty variant: both stores are made under both locks, the URL's lock taken first.
AsyncStoreInstanceUrlLockFirst(t) ==
    /\ th[t].pc = "async_store_instance"
    /\ IF lock["RELAY_CLIENT_URL"] # t
       THEN /\ CanLock("RELAY_CLIENT_URL", t)
            /\ Acquire("RELAY_CLIENT_URL", t)
            /\ UNCHANGED << RELAY_INSTANCE, th, last >>
            /\ UNCHANGED RELAY_CLIENT_URL
            /\ UNCHANGED live
       ELSE /\ CanLock("RELAY_INSTANCE", t)
            /\ RELAY_INSTANCE' = th[t].relay
            /\ live' \in DroppedHandle(RELAY_INSTANCE)
            /\ RELAY_CLIENT_URL' = th[t].url
            /\ Release("RELAY_CLIENT_URL")
            /\ Return(t, Ok(Unwrap(th[t].url)))
    /\ UNCHANGED << RELAY_DATABASE, RUNTIME, LOG_FILE_PATH, LOG_GUARD,
                    subscriber, shut, constructed, sink, starts, calls, pre >>

\* Faulty variant: the handle found in the slot is shut down before it is
\* replaced.
AsyncStoreInstanceShutsPrevious(t) ==
    /\ th[t].pc = "async_store_instance"
    /\ CanLock("RELAY_INSTANCE", t)
    /\ RELAY_INSTANCE' = th[t].relay
    /\ live' = IF RELAY_INSTANCE = None THEN live
               ELSE live \ {Unwrap(RELAY_INSTANCE)}
    /\ shut' = IF RELAY_INSTANCE = None THEN shut
               ELSE shut \cup {Unwrap(RELAY_INSTANCE)}
    /\ Goto(t, "async_store_url")
    /\ UNCHANGED << RELAY_CLIENT_URL, RELAY_DATABASE, RUNTIME, LOG_FILE_PATH,
                    LOG_GUARD, lock, subscriber, constructed, sink, starts,
                    calls, pre >>

\* The new handle overwrites the slot.  No shutdown() is called on a handle
\* that was there; it is dropped, and whether the relay library stops a relay
\* whose handle is dropped is not fixed by this code: either may happen.
AsyncStoreInstance(t) ==
    /\ th[t].pc = "async_store_instance"
    /\ CanLock("RELAY_INSTANCE", t)
    /\ RELAY_INSTANCE' = th[t].relay
    /\ live' \in DroppedHandle(RELAY_INSTANCE)
    /\ Goto(t, "async_store_url")
    /\ UNCHANGED << RELAY_CLIENT_URL, RELAY_DATABASE, RUNTIME, LOG_FILE_PATH,
                    LOG_GUARD, lock, subscriber, shut, constructed, sink, starts,
                    calls, pre >>

\* Faulty variant: the relay's own URL is stored, the client URL returned.
AsyncStoreUrlRaw(t) ==
    /\ th[t].pc = "async_store_url"
    /\ CanLock("RELAY_CLIENT_URL", t)
    /\ RELAY_CLIENT_URL' = Some(RelayUrl(Unwrap(ParseIp(th[t].host)), th[t].port))
    /\ Return(t, Ok(Unwrap(th[t].url)))
    /\ UNCHANGED << RELAY_INSTANCE, RELAY_DATABASE, RUNTIME, LOG_FILE_PATH,
                    LOG_GUARD, lock, subscriber, live, shut, constructed, sink,
                    starts, calls, pre >>

AsyncStoreUrl(t) ==
    /\ th[t].pc = "async_store_url"
    /\ CanLock("RELAY_CLIENT_URL", t)
    /\ RELAY_CLIENT_URL' = th[t].url
    /\ Return(t, Ok(Unwrap(th[t].url)))
    /\ UNCHANGED << RELAY_INSTANCE, RELAY_DATABASE, RUNTIME, LOG_FILE_PATH,
                    LOG_GUARD, lock, subscriber, live, shut, constructed, sink,
                    starts, calls, pre >>

\* ------------------------------------------------------------- stop_relay
StopRelayCall(t) ==
    /\ Begin(t, "stop", [Idle EXCEPT !.pc = "stop_take", !.op = "stop"])
    /\ UNCHANGED << globals, lock, subscriber, live, shut, constructed, sink, starts >>

\* Faulty variant: the URL and the log guard are cleared before the slot is tested.
StopNotRunningClears(t) ==
    /\ th[t].pc = "stop_take"
    /\ CanLock("RELAY_INSTANCE", t)
    /\ RELAY_INSTANCE = None
    /\ RELAY_CLIENT_URL' = None
    /\ LOG_GUARD' = None
    /\ Return(t, Err(ErrNotRunning))
    /\ UNCHANGED << RELAY_INSTANCE, RELAY_DATABASE, RUNTIME, LOG_FILE_PATH,
                    lock, subscriber, live, shut, constructed, sink, starts, calls,
                    pre >>

\* The slot is empty: the error is returned and the lock released.
StopNotRunning(t) ==
    /\ th[t].pc = "stop_take"
    /\ CanLock("RELAY_INSTANCE", t)
    /\ RELAY_INSTANCE = None
    /\ Return(t, Err(ErrNotRunning))
    /\ UNCHANGED << globals, lock, subscriber, live, shut, constructed, sink,
                    starts, calls, pre >>

\* Faulty variant: the handle is taken out of the slot and dropped, not shut down.
StopTakeNoShutdown(t) ==
    /\ th[t].pc = "stop_take"
    /\ CanLock("RELAY_INSTANCE", t)
    /\ RELAY_INSTANCE # None
    /\ Acquire("RELAY_INSTANCE", t)
    /\ RELAY_INSTANCE' = None
    /\ Set(t, [th[t] EXCEPT !.pc = "stop_clear_url", !.relay = RELAY_INSTANCE])
    /\ UNCHANGED << RELAY_CLIENT_URL, RELAY_DATABASE, RUNTIME, LOG_FILE_PATH,
                    LOG_GUARD, subscriber, live, shut, constructed, sink, starts,
                    calls, pre >>

\* The handle is taken out of the slot and shut down; the lock stays held
\* until the call returns.
StopTake(t) ==
    /\ th[t].pc = "stop_take"
    /\ CanLock("RELAY_INSTANCE", t)
    /\ RELAY_INSTANCE # None
    /\ Acquire("RELAY_INSTANCE", t)
    /\ RELAY_INSTANCE' = None
    /\ live' = live \ {Unwrap(RELAY_INSTANCE)}
    /\ shut' = shut \cup {Unwrap(RELAY_INSTANCE)}
    /\ Set(t, [th[t] EXCEPT !.pc = "stop_clear_url", !.relay = RELAY_INSTANCE])
    /\ UNCHANGED << RELAY_CLIENT_URL, RELAY_DATABASE, RUNTIME, LOG_FILE_PATH,
                    LOG_GUARD, subscriber, constructed, sink, starts, calls, pre >>

StopClearUrl(t) ==
    /\ th[t].pc = "stop_clear_url"
    /\ CanLock("RELAY_CLIENT_URL", t)
    /\ RELAY_CLIENT_URL' = None
    /\ Goto(t, "stop_clear_guard")
    /\ UNCHANGED << RELAY_INSTANCE, RELAY_DATABASE, RUNTIME, LOG_FILE_PATH,
                    LOG_GUARD, lock, subscriber, live, shut, constructed, sink,
                    starts, calls, pre >>

\* The stored guard is dropped.
StopClearGuard(t) ==
    /\ th[t].pc = "stop_clear_guard"
    /\ CanLock("LOG_GUARD", t)
    /\ LOG_GUARD' = None
    /\ fs' = FilesAfterDrop
    /\ pending' = << >>
    /\ Goto(t, "stop_flush")
    /\ UNCHANGED << RELAY_INSTANCE, RELAY_CLIENT_URL, RELAY_DATABASE, RUNTIME,
                    LOG_FILE_PATH, lock, subscriber, live, shut, constructed,
                    starts, calls, pre >>

\* The stop event is logged, the thread sleeps 100 ms, and the guard on the
\* slot is dropped as the function returns.
StopFlush(t) ==
    /\ th[t].pc = "stop_flush"
    /\ pending' = Logged(<< << "Relay stopped", 0 >> >>)
    /\ Return(t, Ok(Unit))
    /\ Release("RELAY_INSTANCE")
    /\ UNCHANGED << globals, subscriber, fs, live, shut, constructed, starts,
                    calls, pre >>

\* ------------------------------------------- get_relay_url, is_relay_running
\* What get_relay_url returns in the current state.
GetRelayUrlResult ==
    IF RELAY_CLIENT_URL # None THEN Ok(Unwrap(RELAY_CLIENT_URL))
    ELSE Err(ErrNotRunning)

\* What is_relay_running returns in the current state.
IsRelayRunningResult == RELAY_INSTANCE # None

GetRelayUrlCall(t) ==
    /\ Begin(t, "get_url", [Idle EXCEPT !.pc = "get_url", !.op = "get_url"])
    /\ UNCHANGED << globals, lock, subscriber, live, shut, constructed, sink, starts >>

GetRelayUrl(t) ==
    /\ th[t].pc = "get_url"
    /\ CanLock("RELAY_CLIENT_URL", t)
    /\ Return(t, GetRelayUrlResult)
    /\ UNCHANGED << globals, lock, subscriber, live, shut, constructed, sink,
                    starts, calls, pre >>

IsRelayRunningCall(t) ==
    /\ Begin(t, "is_running", [Idle EXCEPT !.pc = "is_running",
                                           !.op = "is_running"])
    /\ UNCHANGED << globals, lock, subscriber, live, shut, constructed, sink, starts >>

IsRelayRunning(t) ==
    /\ th[t].pc = "is_running"
    /\ CanLock("RELAY_INSTANCE", t)
    /\ Return(t, Ok(IsRelayRunningResult))
    /\ UNCHANGED << globals, lock, subscriber, live, shut, constructed, sink,
                    starts, calls, pre >>

\* --------------------------------------------------------- get_relay_stats
GetRelayStatsCall(t, db_path) ==
    /\ Begin(t, "get_stats", [Idle EXCEPT !.pc = "stats_db", !.op = "get_stats",
                                          !.db_path = db_path])
    /\ UNCHANGED << globals, lock, subscriber, live, shut, constructed, sink, starts >>

\* The stored handle is cloned when there is one; otherwise the database is
\* opened with the lock on RELAY_DATABASE still held.
StatsDb(t) ==
    /\ th[t].pc = "stats_db"
    /\ CanLock("RELAY_DATABASE", t)
    /\ IF RELAY_DATABASE # None
       THEN /\ Set(t, [th[t] EXCEPT !.pc = "stats_rt", !.db = RELAY_DATABASE])
            /\ UNCHANGED lock
       ELSE /\ Goto(t, "stats_open")
            /\ Acquire("RELAY_DATABASE", t)
    /\ UNCHANGED << globals, subscriber, live, shut, constructed, sink, starts, calls, pre >>

StatsOpenStoresHandle(t) ==
    /\ th[t].pc = "stats_open"
    /\ \/ /\ Return(t, Err(ErrOpenDb))
          /\ UNCHANGED RELAY_DATABASE
       \/ /\ Set(t, [th[t] EXCEPT !.pc = "stats_rt",
                                   !.db = Some([path |-> th[t].db_path, n |-> 0])])
          /\ RELAY_DATABASE' = Some([path |-> th[t].db_path, n |-> 0])
    /\ Release("RELAY_DATABASE")
    /\ UNCHANGED << RELAY_INSTANCE, RELAY_CLIENT_URL, RUNTIME, LOG_FILE_PATH,
                    LOG_GUARD, subscriber, live, shut, constructed, sink,
                    starts, calls, pre >>

StatsOpen(t) ==
    /\ th[t].pc = "stats_open"
    /\ \/ Return(t, Err(ErrOpenDb))
       \/ Set(t, [th[t] EXCEPT !.pc = "stats_rt",
                                !.db = Some([path |-> th[t].db_path, n |-> 0])])
    /\ Release("RELAY_DATABASE")
    /\ UNCHANGED << globals, subscriber, live, shut, constructed, sink, starts, calls, pre >>

\* get_relay_stats_sync: the runtime must already exist.
StatsRuntime(t) ==
    /\ th[t].pc = "stats_rt"
    /\ CanLock("RUNTIME", t)
    /\ IF RUNTIME = None
       THEN Return(t, Err(ErrRuntimeNotInit))
       ELSE Set(t, [th[t] EXCEPT !.pc = "stats_count", !.rt = RUNTIME])
    /\ UNCHANGED << globals, lock, subscriber, live, shut, constructed, sink,
                    starts, calls, pre >>

\* The count query runs on the runtime, over the database of the handle.
StatsCount(t) ==
    /\ th[t].pc = "stats_count"
    /\ \/ Return(t, Err(ErrCount))
       \/ Return(t, Ok([total_events |-> EventsIn(Unwrap(th[t].db).path)]))
    /\ UNCHANGED << globals, lock, subscriber, live, shut, constructed, sink,
                    starts, calls, pre >>

\* ------------------------------------------------------ log file operations
GetLogFilePathCall(t) ==
    /\ Begin(t, "get_log_file_path", [Idle EXCEPT !.pc = "get_log_file_path",
                                                  !.op = "get_log_file_path"])
    /\ UNCHANGED << globals, lock, subscriber, live, shut, constructed, sink, starts >>

GetLogFilePath(t) ==
    /\ th[t].pc = "get_log_file_path"
    /\ CanLock("LOG_FILE_PATH", t)
    /\ Return(t, IF LOG_FILE_PATH # None THEN Ok(Unwrap(LOG_FILE_PATH))
                 ELSE Err(ErrLogPathNotSet))
    /\ UNCHANGED << globals, lock, subscriber, live, shut, constructed, sink,
                    starts, calls, pre >>

ReadLogFileCall(t, max_lines) ==
    /\ Begin(t, "read_log_file", [Idle EXCEPT !.pc = "read_log_lock",
                                              !.op = "read_log_file",
                                              !.max_lines = max_lines])
    /\ UNCHANGED << globals, lock, subscriber, live, shut, constructed, sink, starts >>

\* The lock on LOG_FILE_PATH is taken and kept for the whole call.
ReadLogLock(t) ==
    /\ th[t].pc = "read_log_lock"
    /\ CanLock("LOG_FILE_PATH", t)
    /\ IF LOG_FILE_PATH = None
       THEN /\ Return(t, Err(ErrLogPathNotSet))
            /\ UNCHANGED lock
       ELSE /\ Goto(t, "read_log_io")
            /\ Acquire("LOG_FILE_PATH", t)
    /\ UNCHANGED << globals, subscriber, live, shut, constructed, sink, starts, calls, pre >>

\* The file is read, cut to its last 200 lines when it holds more, and the
\* requested lines returned, all under the lock; reading the file and
\* writing the cut file may fail.
ReadLogIo(t) ==
    /\ th[t].pc = "read_log_io"
    /\ LET path == Unwrap(LOG_FILE_PATH)
           r == ReadLogFile(fs[path], th[t].max_lines) IN
       \/ /\ fs[path] # None
          /\ Return(t, Err(ErrReadLog))
          /\ UNCHANGED fs
       \/ /\ r.file # fs[path]
          /\ Return(t, Err(ErrTruncateLog))
          /\ UNCHANGED fs
       \/ /\ fs' = [fs EXCEPT ![path] = r.file]
          /\ Return(t, Ok(r.text))
    /\ Release("LOG_FILE_PATH")
    /\ UNCHANGED << globals, subscriber, pending, live, shut, constructed,
                    starts, calls, pre >>

ClearLogFileCall(t) ==
    /\ Begin(t, "clear_log_file", [Idle EXCEPT !.pc = "clear_log_lock",
                                               !.op = "clear_log_file"])
    /\ UNCHANGED << globals, lock, subscriber, live, shut, constructed, sink, starts >>

ClearLogLock(t) ==
    /\ th[t].pc = "clear_log_lock"
    /\ CanLock("LOG_FILE_PATH", t)
    /\ IF LOG_FILE_PATH = None
       THEN /\ Return(t, Err(ErrLogPathNotSet))
            /\ UNCHANGED lock
       ELSE /\ Goto(t, "clear_log_io")
            /\ Acquire("LOG_FILE_PATH", t)
    /\ UNCHANGED << globals, subscriber, live, shut, constructed, sink, starts, calls, pre >>

\* fs::write(path, ""): the file is created or emptied; the write may fail.
ClearLogIoKeepsContent(t) ==
    /\ th[t].pc = "clear_log_io"
    /\ Return(t, Ok(Unit))
    /\ Release("LOG_FILE_PATH")
    /\ UNCHANGED << globals, subscriber, fs, pending, live, shut, constructed,
                    starts, calls, pre >>

ClearLogIo(t) ==
    /\ th[t].pc = "clear_log_io"
    /\ \/ /\ Return(t, Err(ErrClearLog))
          /\ UNCHANGED fs
       \/ /\ fs' = [fs EXCEPT ![Unwrap(LOG_FILE_PATH)] = Some(EmptyText)]
          /\ Return(t, Ok(Unit))
    /\ Release("LOG_FILE_PATH")
    /\ UNCHANGED << globals, subscriber, pending, live, shut, constructed,
                    starts, calls, pre >>

\* ------------------------------------------------- the file writer's worker
\* The worker thread of the subscriber's writer writes the oldest record it
\* was handed, and its "\n", at the end of the file the writer was made for.
WorkerWrite ==
    /\ pending # << >>
    /\ subscriber # None
    /\ fs' = [fs EXCEPT ![Unwrap(subscriber).path] =
                            Some(AppendRecord(Content(@), pending[1]))]
    /\ pending' = SubSeq(pending, 2, Len(pending))
    /\ last' = IF AllIdle /\ last.op # "none" THEN [last EXCEPT !.wrote = TRUE]
               ELSE last
    /\ pre' = IF ~AllIdle /\ pre.by # 0 THEN [pre EXCEPT !.wrote = TRUE]
              ELSE pre
    /\ UNCHANGED << globals, lock, subscriber, live, shut, constructed, starts,
                    calls, th >>

\* ---------------------------------------------------------- specifications
\* One step of a call in progress.
Step(t) ==
    \/ StartLogPath(t) \/ StartLogFile(t) \/ StartLogGuard(t)
    \/ StartRuntimeLock(t) \/ StartRuntimeNew(t) \/ StartRuntimeClone(t)
    \/ AsyncOpenDb(t) \/ AsyncStoreDb(t) \/ AsyncRun(t)
    \/ AsyncStoreInstance(t) \/ AsyncStoreUrl(t)
    \/ StopNotRunning(t) \/ StopTake(t) \/ StopClearUrl(t)
    \/ StopClearGuard(t) \/ StopFlush(t)
    \/ GetRelayUrl(t) \/ IsRelayRunning(t)
    \/ StatsDb(t) \/ StatsOpen(t) \/ StatsRuntime(t) \/ StatsCount(t)
    \/ GetLogFilePath(t) \/ ReadLogLock(t) \/ ReadLogIo(t)
    \/ ClearLogLock(t) \/ ClearLogIo(t)

\* A call begins, with arguments from the given sets.
Call(t, hosts, ports, paths, maxes) ==
    \/ \E h \in hosts, p \in ports, d \in paths : StartRelayCall(t, h, p, d)
    \/ StopRelayCall(t)
    \/ GetRelayUrlCall(t)
    \/ IsRelayRunningCall(t)
    \/ \E d \in paths : GetRelayStatsCall(t, d)
    \/ GetLogFilePathCall(t)
    \/ \E m \in maxes : ReadLogFileCall(t, m)
    \/ ClearLogFileCall(t)

\* Threads call concurrently.
Next ==
    \/ WorkerWrite
    \/ \E t \in Threads :
          \/ calls < MaxCalls
             /\ Call(t, ConcHosts, ConcPorts, ConcDbPaths, ConcMaxLines)
          \/ Step(t)

Spec == Init /\ [][Next]_vars

\* Calls are made one at a time: a call begins only when none is in progress.
SeqNext ==
    \/ WorkerWrite
    \/ \E t \in Threads :
          \/ AllIdle /\ calls < MaxCalls
             /\ Call(t, Hosts, Ports, DbPaths, ConcMaxLines)
          \/ Step(t)

SeqSpec == Init /\ [][SeqNext]_vars

\* Every thread in a call keeps being scheduled.
FairSpec == Spec /\ \A t \in Threads : WF_vars(Step(t))

\* The log file: a later run of the program, calls made one at a time that
\* start and stop the relay and read and clear the log file, and the worker.
LogStep(t) ==
    \/ StartLogPath(t) \/ StartLogFile(t) \/ StartLogGuard(t)
    \/ StartRuntimeLock(t) \/ StartRuntimeNew(t) \/ StartRuntimeClone(t)
    \/ AsyncOpenDb(t) \/ AsyncStoreDb(t) \/ AsyncRun(t)
    \/ AsyncStoreInstance(t) \/ AsyncStoreUrl(t)
    \/ StopNotRunning(t) \/ StopTake(t) \/ StopClearUrl(t)
    \/ StopClearGuard(t) \/ StopFlush(t)
    \/ ReadLogLock(t) \/ ReadLogIo(t)
    \/ ClearLogLock(t) \/ ClearLogIo(t)

LogCall(t) ==
    \/ \E h \in LogHosts, d \in LogDbPaths : StartRelayCall(t, h, DefaultPort, d)
    \/ StopRelayCall(t)
    \/ \E m \in MaxLinesArgs : ReadLogFileCall(t, m)
    \/ ClearLogFileCall(t)

LogNext ==
    \/ WorkerWrite
    \/ \E t \in Threads :
          \/ AllIdle /\ calls < MaxCalls /\ LogCall(t)
          \/ LogStep(t)

LogSpec == LogInit /\ [][LogNext]_vars

\* ------------------------------------------------------------- properties
\* The call that returned last ran alone, from the recorded snapshot, and no
\* call has begun since.
Returned(op) == AllIdle /\ last.op = op /\ pre.by # 0

\* The phases in which a start or a stop does its slow work: the database
\* open, the socket bind, the delay after a stop.
SlowPhases == {"async_open_db", "async_run", "stop_flush"}

\* C1: at most one relay that has been started and not yet shut down exists
\* at any time, also after a start issued while a relay is running.
C1_AtMostOneLiveRelay == Cardinality(live) <= 1

\* C2: when start returns an error, the six globals have the values they had
\* when the call began.
C2_FailedStartMutatesNothing ==
    (Returned("start") /\ ~last.ret.ok) => Globals = pre.g

\* C3: a start that returns an error leaves the slot and the client URL as
\* they were: issued while Stopped, is_running is false and get_url fails;
\* issued while Running, is_running is true and get_url returns the earlier
\* URL.
C3_FailedStartKeepsSlotAndUrl ==
    (Returned("start") /\ ~last.ret.ok) =>
        /\ RELAY_INSTANCE = pre.g.instance
        /\ RELAY_CLIENT_URL = pre.g.url
        /\ pre.g.instance = None =>
              /\ ~IsRelayRunningResult
              /\ ~GetRelayUrlResult.ok
              /\ GetRelayUrlResult.val = ErrNotRunning
        /\ pre.g.instance # None =>
              /\ IsRelayRunningResult
              /\ pre.g.url # None
              /\ GetRelayUrlResult.ok
              /\ GetRelayUrlResult.val = Unwrap(pre.g.url)

\* A start has failed at the bind while a relay was running.
C3_Witness ==
    /\ Returned("start")
    /\ ~last.ret.ok
    /\ last.ret.val = ErrStartRelay
    /\ pre.g.instance # None

\* C4: when start returns Ok(u) and no other call intervenes, is_running
\* returns true and get_url returns u.
C4_StartThenRunningWithUrl ==
    (Returned("start") /\ last.ret.ok) =>
        /\ IsRelayRunningResult
        /\ GetRelayUrlResult.ok
        /\ GetRelayUrlResult.val = last.ret.val

\* A start on the wildcard address has succeeded.
C4_Witness ==
    /\ Returned("start")
    /\ last.ret.ok
    /\ last.ret.val = << "ws", "127.0.0.1", DefaultPort >>

\* C5: stop called with the slot empty returns the "not running" error and
\* changes none of the globals, so is_running returns what it did before.
C5_StopWhenStoppedChangesNothing ==
    (Returned("stop") /\ pre.g.instance = None) =>
        /\ ~last.ret.ok
        /\ last.ret.val = ErrNotRunning
        /\ Globals = pre.g
        /\ IsRelayRunningResult = (pre.g.instance # None)

\* A stop has returned that was called with the slot empty while a log guard
\* and a database handle were stored (a start had failed at the bind).
C5_Witness ==
    /\ Returned("stop")
    /\ pre.g.instance = None
    /\ pre.g.log_guard # None
    /\ pre.g.database # None

\* C6: stop called while Running, alone, returns success; the relay that was
\* in the slot has been shut down; the slot, the client URL and the log guard
\* are empty, so is_running is false and get_url fails with "not running".
C6_StopWhenRunningClears ==
    (Returned("stop") /\ pre.g.instance # None) =>
        /\ last.ret.ok
        /\ Unwrap(pre.g.instance) \in shut
        /\ Unwrap(pre.g.instance) \notin live
        /\ RELAY_INSTANCE = None
        /\ RELAY_CLIENT_URL = None
        /\ LOG_GUARD = None
        /\ ~IsRelayRunningResult
        /\ ~GetRelayUrlResult.ok
        /\ GetRelayUrlResult.val = ErrNotRunning

\* A stop has returned that was called while a relay was running.
C6_Witness ==
    /\ Returned("stop")
    /\ pre.g.instance # None
    /\ pre.g.url # None
    /\ pre.g.log_guard # None

\* C7: the stored client URL never names a wildcard host, and a start on
\* 0.0.0.0 with port P is about to store and return ws://127.0.0.1:P.
C7_ClientUrlNeverWildcard ==
    /\ RELAY_CLIENT_URL # None => ~IsWildcardUrl(Unwrap(RELAY_CLIENT_URL))
    /\ \A t \in Threads :
          (th[t].pc = "async_store_url" /\ th[t].host = "0.0.0.0") =>
              th[t].url = Some(<< "ws", "127.0.0.1", th[t].port >>)

\* C8: under every interleaving at most one runtime is constructed, the
\* stored one is the constructed one, every start and get_stats that has
\* obtained a runtime holds the stored one, and once stored it is not replaced.
C8_OneRuntime ==
    /\ [](/\ Cardinality(constructed) <= 1
          /\ RUNTIME # None => constructed = {Unwrap(RUNTIME)}
          /\ \A t \in Threads : th[t].rt # None => th[t].rt = RUNTIME)
    /\ [][RUNTIME # None => RUNTIME' = RUNTIME]_vars

\* Two first calls race: one holds the lock and is about to construct the
\* runtime, the other waits for the lock.
C8_Witness ==
    \E t, u \in Threads :
        /\ th[t].pc = "start_rt_new"
        /\ th[u].pc = "start_rt_lock"
        /\ RUNTIME = None

\* C9: a thread in a slow phase of start or stop holds neither the lock of
\* the slot nor the lock of the client URL.
C9_NoSlotLockDuringSlowWork ==
    \A t \in Threads :
        th[t].pc \in SlowPhases =>
            /\ lock["RELAY_INSTANCE"] # t
            /\ lock["RELAY_CLIENT_URL"] # t

\* C10: while a call is in progress some thread can take a step (no
\* deadlock), and every call that has begun returns.
C10_NoDeadlockAndEveryCallReturns ==
    /\ [](~AllIdle => \E t \in Threads : ENABLED Step(t))
    /\ \A t \in Threads : (th[t].pc # "idle") ~> (th[t].pc = "idle")

\* A start waits for the lock of the slot, which a stop in progress holds.
C10_Witness ==
    \E t, u \in Threads :
        /\ th[t].op = "stop"
        /\ lock["RELAY_INSTANCE"] = t
        /\ th[u].pc = "async_store_instance"
        /\ ~ENABLED Step(u)

\* The number of lines of the log file at a path, a missing file having none.
LineCount(files, p) == Len(Lines(Content(files[p])))

\* C11: no operation leaves more than 200 lines in a log file: not a step
\* that writes the file (of a start, of read_log_file, of clear_log_file, or
\* the file sink writing a record), and not a start, read_log_file or
\* clear_log_file as it returns, for the file at the stored log path.
C11_LogFileNeverExceedsCap ==
    [][/\ \A p \in LogPaths :
             fs'[p] # fs[p] => LineCount(fs', p) <= MaxLogLines
       /\ (/\ ~AllIdle
           /\ AllIdle'
           /\ last'.op \in {"start", "read_log_file", "clear_log_file"}
           /\ LOG_FILE_PATH' # None)
          => LineCount(fs', Unwrap(LOG_FILE_PATH')) <= MaxLogLines]_vars

\* The read_log_file that returned last ran alone and returned text, and the
\* worker has written to no log file since the call began.
ReadDone ==
    /\ Returned("read_log_file")
    /\ last.ret.ok
    /\ ~pre.wrote
    /\ ~last.wrote

\* The read_log_file before it was made with the same argument and returned
\* text, and the worker wrote to no log file between the two.
SecondRead ==
    /\ pre.prev.op = "read_log_file"
    /\ pre.prev.ret.ok
    /\ ~pre.prev.wrote
    /\ pre.prev.arg = pre.arg

\* The log file when the last call began, and now.
FileBefore == pre.fs[Unwrap(LOG_FILE_PATH)]
FileNow == fs[Unwrap(LOG_FILE_PATH)]

\* C12: a read_log_file that finds more than 200 lines leaves exactly the
\* last 200 of them, in their order; one that finds at most 200 leaves the
\* file as it is; a second read_log_file, with the same argument and no write
\* in between, leaves the file as it is and returns the text the first did.
C12_ReadPruneKeepsTailAndIsIdempotent ==
    ReadDone =>
        /\ LineCount(pre.fs, Unwrap(LOG_FILE_PATH)) > MaxLogLines =>
              /\ FileNow # None
              /\ Lines(Content(FileNow)) =
                     SubSeq(Lines(Content(FileBefore)),
                            LineCount(pre.fs, Unwrap(LOG_FILE_PATH)) - MaxLogLines + 1,
                            LineCount(pre.fs, Unwrap(LOG_FILE_PATH)))
              /\ LineCount(fs, Unwrap(LOG_FILE_PATH)) = MaxLogLines
        /\ LineCount(pre.fs, Unwrap(LOG_FILE_PATH)) <= MaxLogLines =>
              FileNow = FileBefore
        /\ SecondRead =>
              /\ FileNow = FileBefore
              /\ last.ret = pre.prev.ret

\* A second read_log_file has returned after a first that had found more
\* than 200 lines and cut the file: the one start of the behaviour has logged,
\* and the file now holds 200 lines that end with the last record logged and
\* no "\n", which only a cut made after the record was written leaves.
C12_Witness ==
    /\ ReadDone
    /\ SecondRead
    /\ starts = 1
    /\ LineCount(fs, Unwrap(LOG_FILE_PATH)) = MaxLogLines
    /\ ~Content(FileNow).nl
    /\ Lines(Content(FileNow))[MaxLogLines] = << << "Log file:", 1 >> >>
    /\ Lines(last.ret.val) = Lines(Content(FileNow))

\* The smaller of two numbers.
Min(a, b) == IF a < b THEN a ELSE b

\* The number of lines read_log_file(max_lines) is asked for: 200 when the
\* argument is absent.
Asked(max_lines) == IF max_lines = None THEN MaxLogLines ELSE Unwrap(max_lines)

\* C13: for a log file that is not empty and has T lines, and any argument n
\* (absent meaning 200), read_log_file returns the last min(n, 200, T) lines
\* of the file, in their order.
C13_ReadReturnsLastLines ==
    (ReadDone /\ FileBefore # None /\ Content(FileBefore) # EmptyText) =>
        LET lines == Lines(Content(FileBefore))
            T == Len(lines)
            k == Min(Min(Asked(pre.arg.max_lines), MaxLogLines), T) IN
        Lines(last.ret.val) = SubSeq(lines, T - k + 1, T)

\* read_log_file(Some(10)) has returned 10 lines of a file of 500 lines.
C13_Witness ==
    /\ ReadDone
    /\ pre.arg.max_lines = Some(10)
    /\ LineCount(pre.fs, Unwrap(LOG_FILE_PATH)) = 2 * MaxLogLines + 100
    /\ Len(Lines(last.ret.val)) = 10

\* read_log_file has returned, the call before it was clear_log_file, and the
\* log worker wrote no record after that call returned.
ReadAfterClear ==
    /\ Returned("read_log_file")
    /\ pre.prev.op = "clear_log_file"
    /\ ~pre.prev.wrote
    /\ ~pre.wrote

C15_StatsCountsTheGivenPath ==
    (Returned("get_stats") /\ last.ret.ok) =>
        last.ret.val.total_events = EventsIn(pre.arg.db_path)

\* C16: in every reachable state, get_stats on a path whose database can be
\* opened and counted and holds zero events returns total_events = 0 rather
\* than an error.
C16_StatsOfEmptyDatabaseIsZero ==
    (/\ Returned("get_stats")
     /\ EventsIn(pre.arg.db_path) = 0
     /\ last.ret \notin {Err(ErrOpenDb), Err(ErrCount)}) =>
        last.ret = Ok([total_events |-> 0])

\* The operations that only read the global state.
ReadOnlyOps == {"get_url", "is_running", "get_stats", "get_log_file_path"}

\* C17: get_url, is_running, get_stats and get_log_file_path leave the
\* lifecycle slot, the client URL, the stored database handle, the execution
\* context, the log path and the log guard as they were when the call began,
\* whether the call succeeds or fails.
C17_ReadsLeaveGlobalsUnchanged ==
    \A op \in ReadOnlyOps : Returned(op) => Globals = pre.g

\* get_stats has succeeded with a handle it opened itself (none was stored),
\* and none is stored afterwards.
C17_Witness ==
    /\ Returned("get_stats")
    /\ last.ret.ok
    /\ pre.g.database = None
    /\ RELAY_DATABASE = None

\* C18: after any sequence of appends by the file sink, truncations at start
\* and prunings by read_log_file, every line of every log file holds exactly
\* one record: a record appended after a truncation is never joined onto the
\* last retained line.
C18_OneRecordPerLine ==
    \A p \in LogPaths :
        \A i \in 1..LineCount(fs, p) : Len(Lines(Content(fs[p]))[i]) = 1

\* A start has succeeded that began while the slot held a relay.
StartedWhileRunning ==
    Returned("start") /\ last.ret.ok /\ pre.g.instance # None

\* At the return of such a start the slot holds a newer relay, the client URL
\* is the one the start returned, and the relay that was in the slot has not
\* been shut down.
Replaced ==
    StartedWhileRunning =>
        /\ RELAY_INSTANCE # None
        /\ Unwrap(RELAY_INSTANCE).id > Unwrap(pre.g.instance).id
        /\ RELAY_CLIENT_URL = Some(last.ret.val)
        /\ Unwrap(pre.g.instance) \notin shut

\* shutdown() is only ever called on the relay that is taken out of the slot,
\* and a relay put into an occupied slot is newer than the one it replaces:
\* a relay that has been replaced never comes back and is never shut down.
ShutdownOnlyFromSlot ==
    /\ \A r \in shut' \ shut : RELAY_INSTANCE = Some(r) /\ RELAY_INSTANCE' = None
    /\ (RELAY_INSTANCE # None /\ RELAY_INSTANCE' \notin {None, RELAY_INSTANCE})
          => Unwrap(RELAY_INSTANCE').id > Unwrap(RELAY_INSTANCE).id

\* C19: a start that succeeds while a relay is Running overwrites the slot and
\* the client URL with the new relay's handle and URL without shutting the
\* previous relay down; a following stop shuts down only the newest relay, and
\* the earlier relay never receives a shutdown from any later operation.
C19_RestartLeaksPreviousRelay ==
    [][Replaced' /\ ShutdownOnlyFromSlot]_vars

\* Two starts succeeded, the second while the first relay was Running; the
\* stop that followed shut down the second relay only, and the first, never
\* shut down, still runs.
C19_Witness ==
    /\ Returned("stop")
    /\ last.ret.ok
    /\ pre.g.instance # None
    /\ Unwrap(pre.g.instance).id = 2
    /\ shut = {Unwrap(pre.g.instance)}
    /\ \E r \in live : r.id = 1

\* C20: under any interleaving of concurrent start and stop calls, once every
\* call has returned the slot holds a handle exactly when a client URL is
\* stored (is_running returns true exactly when get_url succeeds).
C20_SlotAndUrlAgreeWhenIdle ==
    AllIdle => (RELAY_INSTANCE # None <=> RELAY_CLIENT_URL # None)

\* C21: under any interleaving of concurrent start and stop calls, once every
\* call has returned, a relay handle in the slot implies a log guard in
\* LOG_GUARD: a stop of an earlier relay never discards the guard installed
\* by a start that then completes.
C21_RunningImpliesLogGuard ==
    (AllIdle /\ RELAY_INSTANCE # None) => LOG_GUARD # None

\* Record rec stands on some line of the log file at path p.
InFile(rec, p) ==
    LET lines == Lines(Content(fs[p])) IN
    \E i \in 1..Len(lines) : \E j \in 1..Len(lines[i]) : lines[i][j] = rec

\* The installed file sink writes through the writer whose guard LOG_GUARD
\* holds, into the file at the stored log path.
SinkFollowsGuardAndPath ==
    /\ WorkerAlive
    /\ LOG_FILE_PATH = Some(Unwrap(subscriber).path)

\* C22: after every successful start (also one that follows a stop, or one
\* whose db_path lies in another directory) the installed file sink writes
\* through the writer whose guard is held and into the file at the stored log
\* path, so the event the start logged about its relay is in the file that
\* read_log_file reads once the worker has written all it was handed.
C22_EventsReachTheLogFile ==
    (Returned("start") /\ last.ret.ok) =>
        /\ SinkFollowsGuardAndPath
        /\ pending = << >> =>
              InFile(<< "Relay started on", Unwrap(RELAY_INSTANCE).id >>,
                     Unwrap(LOG_FILE_PATH))

====
